---- MODULE Spec2Model ----
(***************************************************************************)
(* The evaluation-report engine of src/metrics/report.py and the inference *)
(* loop of src/inference/run_model.py as state machines.                   *)
(*                                                                         *)
(*   SpecClassify  get_eval_report applied to one (status map, gold) pair  *)
(*   Spec          get_eval_reports_for_logs, entered directly or through  *)
(*                 get_model_eval_summary / get_eval_reports_for_dir       *)
(*   SpecRates     the case_resolution_rates arithmetic on a histogram     *)
(*   SpecReport    get_model_report over a list of predictions             *)
(*   SpecInfer     main with anthropic_inference / call_anthropic and      *)
(*                 openai_inference / call_chat                            *)
(***************************************************************************)
EXTENDS Integers, Sequences, FiniteSets, TLC

VARIABLES
    \* get_eval_report on one input pair
    c_pc, eval_sm, gold_results, report,
    \* get_eval_reports_for_logs and its callers
    w_pc, entry, eval_refs, callback, eval_logs, logs_eval, k,
    reports_patch_success, reports_patch_failure, summary,
    \* case_resolution_rates on one histogram
    h_pc, resolutions, rates,
    \* get_model_report
    r_pc, predictions, gold_refs, pred_i, report_map, log_exists, status_maps,
    \* run_model.main, anthropic_inference and openai_inference
    i_pc, model_name_or_path, shard, dataset, output_file, existing_ids,
    test_dataset, datum_i, attempt_number, sent, runs,
    too_long, max_cost, total_cost

classVars == <<c_pc, eval_sm, gold_results, report>>
walkVars == <<w_pc, entry, eval_refs, callback, eval_logs, logs_eval, k,
              reports_patch_success, reports_patch_failure, summary>>
rateVars == <<h_pc, resolutions, rates>>
reportVars == <<r_pc, predictions, gold_refs, pred_i, report_map, log_exists, status_maps>>
inferVars == <<i_pc, model_name_or_path, shard, dataset, output_file, existing_ids,
               test_dataset, datum_i, attempt_number, sent, runs,
               too_long, max_cost, total_cost>>
vars == <<classVars, walkVars, rateVars, reportVars, inferVars>>

(***************************************************************************)
(* Bounds of the model.                                                    *)
(***************************************************************************)
MaxGoldLen == 2
MaxLogs == 3
MaxCount == 6
MaxPreds == 3
MaxData == 3
MaxRuns == 2

(***************************************************************************)
(* Data model.                                                             *)
(***************************************************************************)
None == "None"

FAIL_TO_PASS == "FAIL_TO_PASS"
PASS_TO_PASS == "PASS_TO_PASS"
FAIL_TO_FAIL == "FAIL_TO_FAIL"
PASS_TO_FAIL == "PASS_TO_FAIL"
Categories == {FAIL_TO_PASS, PASS_TO_PASS, FAIL_TO_FAIL, PASS_TO_FAIL}

Tests == {"t1", "t2"}
TestStatus == {"PASSED", "FAILED", "ERROR"}

\* A status map: test case name -> status, for the test cases the log reports.
StatusMaps == UNION {[D -> TestStatus] : D \in SUBSET Tests}

\* The lists of test case names a gold category can hold (JSON arrays).
GoldLists == UNION {[1..n -> Tests] : n \in 0..MaxGoldLen}
GoldReferences == [Categories -> GoldLists]

Range(s) == {s[i] : i \in DOMAIN s}

(***************************************************************************)
(* getters.test_passed / getters.test_failed: PASS counts as passed, any   *)
(* other recorded status as failed, an absent test case as neither.        *)
(***************************************************************************)
test_passed(test_case, sm) ==
    test_case \in DOMAIN sm /\ sm[test_case] = "PASSED"

test_failed(test_case, sm) ==
    test_case \in DOMAIN sm /\ sm[test_case] # "PASSED"

(***************************************************************************)
(* get_eval_report: one gold category's loop (the four loops of the        *)
(* function are the same code over the four categories).                   *)
(***************************************************************************)
ClassifyElse(tests, sm) ==
    [success |-> SelectSeq(tests, LAMBDA t : test_passed(t, sm)),
     failure |-> SelectSeq(tests, LAMBDA t : ~test_passed(t, sm))]

ClassifyBoth(tests, sm) ==
    [success |-> SelectSeq(tests, LAMBDA t : test_passed(t, sm)),
     failure |-> SelectSeq(tests, LAMBDA t : t \in DOMAIN sm)]

Classify(tests, sm) ==
    [success |-> SelectSeq(tests, LAMBDA t : test_passed(t, sm)),
     failure |-> SelectSeq(tests, LAMBDA t :
                    ~test_passed(t, sm) /\ test_failed(t, sm))]

get_eval_report(sm, gold) ==
    [c \in Categories |-> Classify(gold[c], sm)]

NoReport == [c \in Categories |-> [success |-> <<>>, failure |-> <<>>]]

(***************************************************************************)
(* metrics.get_resolution_status: fully resolved iff no FAIL_TO_PASS and   *)
(* no PASS_TO_PASS case failed; not resolved if a FAIL_TO_PASS case        *)
(* failed; otherwise (only PASS_TO_PASS failures) partially resolved.      *)
(***************************************************************************)
RESOLVED_FULL == "RESOLVED_FULL"
RESOLVED_PARTIAL == "RESOLVED_PARTIAL"
RESOLVED_NO == "RESOLVED_NO"
Verdicts == {RESOLVED_FULL, RESOLVED_PARTIAL, RESOLVED_NO}

get_resolution_status(r) ==
    IF r[FAIL_TO_PASS].failure = <<>> /\ r[PASS_TO_PASS].failure = <<>>
    THEN RESOLVED_FULL
    ELSE IF r[FAIL_TO_PASS].failure # <<>>
         THEN RESOLVED_NO
         ELSE RESOLVED_PARTIAL

(***************************************************************************)
(* Log paths.  An evaluation log is {eval_dir}/{instance_id}.{model}.      *)
(* eval.log; getters.get_file_name_from_lp drops the directory and         *)
(* getters.get_id_from_lp keeps the instance id.  The repo of an instance  *)
(* id is the part of the id before its number.                             *)
(***************************************************************************)
Repos == {"r1", "r2"}
InstanceIds == {"r1-1", "r1-2", "r2-1", "r2-2"}
RepoOf(id) == IF id \in {"r1-1", "r1-2"} THEN "r1" ELSE "r2"

Dirs == {"d1", "d2"}
NoDir == "missing"
LogPath(d, id) == [dir |-> d, instance_id |-> id, model |-> "m"]
LogPaths == {LogPath("d1", id) : id \in InstanceIds} \cup {LogPath("d2", "r1-1")}

get_file_name_from_lp(lp) == [instance_id |-> lp.instance_id, model |-> lp.model]
get_id_from_lp(lp) == lp.instance_id

\* The lists of log paths get_eval_reports_for_logs is called with.
LogLists == UNION {[1..n -> LogPaths] : n \in 0..MaxLogs}

\* glob.glob(eval_dir/*.log): the logs of one directory, each once, in any order.
IsInjective(s) == \A i, j \in DOMAIN s : s[i] = s[j] => i = j
GlobLists(d) == {s \in LogLists : IsInjective(s) /\ \A i \in DOMAIN s : s[i].dir = d}

(***************************************************************************)
(* The gold reference file (eval_refs_path): "r2-2" has no gold reference. *)
(***************************************************************************)
Gold(f2p, p2p, f2f, p2f) ==
    [c \in Categories |->
        CASE c = FAIL_TO_PASS -> f2p
          [] c = PASS_TO_PASS -> p2p
          [] c = FAIL_TO_FAIL -> f2f
          [] c = PASS_TO_FAIL -> p2f]

GoldStores ==
    { ("r1-1" :> Gold(<<"t1", "t2">>, <<>>, <<>>, <<>>))
        @@ ("r1-2" :> Gold(<<"t1">>, <<"t2">>, <<>>, <<>>))
        @@ ("r2-1" :> Gold(<<"t2">>, <<"t1">>, <<"t1">>, <<"t2">>)),
      ("r1-1" :> Gold(<<"t1">>, <<"t2">>, <<"t2">>, <<"t1">>))
        @@ ("r1-2" :> Gold(<<>>, <<"t1", "t2">>, <<>>, <<>>))
        @@ ("r2-1" :> Gold(<<"t2", "t1">>, <<>>, <<"t1">>, <<>>)) }

(***************************************************************************)
(* getters.get_logs_eval(log_path) -> (status map, found).  The log files  *)
(* do not change during a run: a path read twice gives the same answer     *)
(* (logs_eval keeps what each path read so far has answered).              *)
(***************************************************************************)
PatchFailed == [found |-> FALSE, sm |-> <<>>]
LogsEvalResults ==
    {PatchFailed} \cup
    {[found |-> TRUE, sm |-> m] :
        m \in { ("t1" :> "PASSED") @@ ("t2" :> "PASSED"),
                ("t1" :> "PASSED") @@ ("t2" :> "FAILED"),
                ("t1" :> "PASSED"),
                ("t1" :> "FAILED") @@ ("t2" :> "ERROR") }}

get_logs_eval(lp) == IF lp \in DOMAIN logs_eval THEN logs_eval[lp] ELSE PatchFailed

\* The callback of get_model_eval_summary: `repo in eval_log`.
Callbacks == {None} \cup Repos
CallbackAccepts(cb, lp) == RepoOf(lp.instance_id) = cb

(***************************************************************************)
(* get_eval_reports_for_logs: one iteration of the loop over eval_logs, on *)
(* the two result maps.                                                    *)
(***************************************************************************)
Put(m, key, v) == [x \in DOMAIN m \cup {key} |-> IF x = key THEN v ELSE m[x]]

FailureReport(gold) ==
    [test_type \in DOMAIN gold |-> [success |-> <<>>, failure |-> gold[test_type]]]

Skips(eval_log) ==
    \/ callback # None /\ ~CallbackAccepts(callback, eval_log)
    \/ get_id_from_lp(eval_log) \notin DOMAIN eval_refs

\* The loop body with the callback's answer ignored.
LoopBodyNoCallback(S, F, eval_log, res) ==
    IF get_id_from_lp(eval_log) \notin DOMAIN eval_refs
    THEN [success |-> S, failure |-> F]
    ELSE LET gold == eval_refs[get_id_from_lp(eval_log)] IN
         IF ~res.found
         THEN [success |-> S,
               failure |-> Put(F, get_file_name_from_lp(eval_log), FailureReport(gold))]
         ELSE [success |-> Put(S, get_file_name_from_lp(eval_log),
                               get_eval_report(res.sm, gold)),
               failure |-> F]

\* The loop body with the failure map rebound instead of updated.
LoopBodyRebind(S, F, eval_log, res) ==
    IF callback # None /\ ~CallbackAccepts(callback, eval_log)
    THEN [success |-> S, failure |-> F]
    ELSE IF get_id_from_lp(eval_log) \notin DOMAIN eval_refs
    THEN [success |-> S, failure |-> F]
    ELSE LET gold == eval_refs[get_id_from_lp(eval_log)] IN
         IF ~res.found
         THEN [success |-> S,
               failure |-> Put(<<>>, get_file_name_from_lp(eval_log), FailureReport(gold))]
         ELSE [success |-> Put(S, get_file_name_from_lp(eval_log),
                               get_eval_report(res.sm, gold)),
               failure |-> F]

\* The loop body with a patch-apply failure routed like an applied patch.
LoopBodyNoFailure(S, F, eval_log, res) ==
    IF callback # None /\ ~CallbackAccepts(callback, eval_log)
    THEN [success |-> S, failure |-> F]
    ELSE IF get_id_from_lp(eval_log) \notin DOMAIN eval_refs
    THEN [success |-> S, failure |-> F]
    ELSE [success |-> Put(S, get_file_name_from_lp(eval_log),
                          get_eval_report(res.sm, eval_refs[get_id_from_lp(eval_log)])),
          failure |-> F]

LoopBody(S, F, eval_log, res) ==
    IF callback # None /\ ~CallbackAccepts(callback, eval_log)
    THEN [success |-> S, failure |-> F]
    ELSE IF get_id_from_lp(eval_log) \notin DOMAIN eval_refs
    THEN [success |-> S, failure |-> F]
    ELSE LET gold == eval_refs[get_id_from_lp(eval_log)] IN
         IF ~res.found
         THEN [success |-> S,
               failure |-> Put(F, get_file_name_from_lp(eval_log), FailureReport(gold))]
         ELSE [success |-> Put(S, get_file_name_from_lp(eval_log),
                               get_eval_report(res.sm, gold)),
               failure |-> F]

\* The result maps after the whole loop over a list of logs.
RECURSIVE Walk(_, _, _)
Walk(S, F, logs) ==
    IF logs = <<>>
    THEN [success |-> S, failure |-> F]
    ELSE LET b == LoopBody(S, F, Head(logs), get_logs_eval(Head(logs)))
         IN  Walk(b.success, b.failure, Tail(logs))

(***************************************************************************)
(* get_model_eval_summary: the two views over the result maps.             *)
(***************************************************************************)
\* The rate truncated to 2 decimals instead of rounded.
RoundRateTruncated(v, n) == (v * 10000) \div n

\* round(v / n * 100, 2), in hundredths of a percent: the nearest hundredth,
\* a tie going to the even one.  This is the float result for every
\* 1 <= v <= n < 160 (a tie needs 32 | n, and is exact in binary for n < 160).
RoundRate(v, n) ==
    LET q == (v * 10000) \div n
        rem == (v * 10000) % n
    IN  IF 2 * rem < n THEN q
        ELSE IF 2 * rem > n THEN q + 1
        ELSE IF q % 2 = 0 THEN q ELSE q + 1

RECURSIVE SumOver(_, _)
SumOver(f, D) ==
    IF D = {} THEN 0
    ELSE LET x == CHOOSE y \in D : TRUE IN f[x] + SumOver(f, D \ {x})

Total(f) == SumOver(f, DOMAIN f)

\* r: the reports of the view's maps, one item per (map, key).
Flatten(cases) ==
    {<<b, key>> \in (DOMAIN cases) \X UNION {DOMAIN cases[b] : b \in DOMAIN cases} :
        key \in DOMAIN cases[b]}

\* Counter([get_resolution_status(_r) for _r in r])
Counter(cases) ==
    LET r == Flatten(cases)
        status(item) == get_resolution_status(cases[item[1]][item[2]])
        seen == {status(item) : item \in r}
    IN  [v \in seen |-> Cardinality({item \in r : status(item) = v})]

CaseResolutionRates(res, n) == [v \in DOMAIN res |-> RoundRate(res[v], n)]

View(cases) ==
    [cases |-> cases,
     case_resolution_counts |-> Counter(cases),
     case_resolution_rates |->
        CaseResolutionRates(Counter(cases), Cardinality(Flatten(cases)))]

PatchApplySuccess == "Patch Apply Success"
PatchApplyBoth == "Patch Apply Success + Failure"

\* The second view over the failure map alone.
ReportsByPatchStatusSplit(S, F) ==
    (PatchApplySuccess :> <<S>>) @@ (PatchApplyBoth :> <<F>>)

ReportsByPatchStatus(S, F) ==
    (PatchApplySuccess :> <<S>>) @@ (PatchApplyBoth :> <<S, F>>)

Summary(repo, S, F) ==
    [repo |-> IF repo # None THEN repo ELSE "all",
     views |-> [name \in DOMAIN ReportsByPatchStatus(S, F) |->
                    View(ReportsByPatchStatus(S, F)[name])]]

(***************************************************************************)
(* Spec: get_eval_reports_for_logs, called with a list of logs or by       *)
(* get_model_eval_summary through get_eval_reports_for_dir.                *)
(***************************************************************************)
ClassIdle ==
    /\ c_pc = "idle"
    /\ eval_sm = <<>>
    /\ gold_results = [c \in Categories |-> <<>>]
    /\ report = NoReport

WalkIdle ==
    /\ w_pc = "idle"
    /\ entry = None
    /\ eval_refs = <<>>
    /\ callback = None
    /\ eval_logs = <<>>
    /\ logs_eval = <<>>
    /\ k = 0
    /\ reports_patch_success = <<>>
    /\ reports_patch_failure = <<>>
    /\ summary = <<>>

RateIdle ==
    /\ h_pc = "idle"
    /\ resolutions = <<>>
    /\ rates = <<>>

ReportIdle ==
    /\ r_pc = "idle"
    /\ predictions = <<>>
    /\ gold_refs = <<>>
    /\ pred_i = 0
    /\ report_map = <<>>
    /\ log_exists = <<>>
    /\ status_maps = <<>>

InferIdle ==
    /\ i_pc = "idle"
    /\ model_name_or_path = None
    /\ shard = [used |-> FALSE, num_shards |-> 0, shard_id |-> 0]
    /\ dataset = <<>>
    /\ output_file = <<>>
    /\ existing_ids = {}
    /\ test_dataset = <<>>
    /\ datum_i = 0
    /\ attempt_number = 0
    /\ sent = <<>>
    /\ runs = 0
    /\ too_long = {}
    /\ max_cost = {}
    /\ total_cost = 0

Init ==
    /\ entry \in {"logs", "summary"}
    /\ eval_refs \in GoldStores
    /\ callback \in Callbacks
    /\ IF entry = "logs"
       THEN eval_logs \in LogLists /\ w_pc = "loop"
       ELSE eval_logs = <<>> /\ w_pc = "dir"
    /\ logs_eval = <<>>
    /\ k = 1
    /\ reports_patch_success = <<>>
    /\ reports_patch_failure = <<>>
    /\ summary = <<>>
    /\ ClassIdle
    /\ RateIdle
    /\ ReportIdle
    /\ InferIdle

\* get_eval_reports_for_dir: ValueError for a missing directory, else the glob.
GetEvalReportsForDir ==
    /\ w_pc = "dir"
    /\ \E eval_dir \in Dirs \cup {NoDir} :
          IF eval_dir = NoDir
          THEN w_pc' = "ValueError" /\ UNCHANGED eval_logs
          ELSE w_pc' = "loop" /\ eval_logs' \in GlobLists(eval_dir)
    /\ UNCHANGED <<entry, eval_refs, callback, logs_eval, k,
                   reports_patch_success, reports_patch_failure, summary>>
    /\ UNCHANGED <<classVars, rateVars, reportVars, inferVars>>

\* One iteration of `for eval_log in eval_logs`.
ProcessLog ==
    /\ w_pc = "loop"
    /\ k <= Len(eval_logs)
    /\ LET eval_log == eval_logs[k] IN
       \E res \in (IF eval_log \in DOMAIN logs_eval
                   THEN {logs_eval[eval_log]}
                   ELSE IF Skips(eval_log) THEN {PatchFailed} ELSE LogsEvalResults) :
          LET b == LoopBody(reports_patch_success, reports_patch_failure, eval_log, res)
          IN  /\ reports_patch_success' = b.success
              /\ reports_patch_failure' = b.failure
              /\ logs_eval' = IF Skips(eval_log) THEN logs_eval
                              ELSE Put(logs_eval, eval_log, res)
    /\ k' = k + 1
    /\ UNCHANGED <<w_pc, entry, eval_refs, callback, eval_logs, summary>>
    /\ UNCHANGED <<classVars, rateVars, reportVars, inferVars>>

\* `return reports_patch_success, reports_patch_failure`
ReturnReports ==
    /\ w_pc = "loop"
    /\ k > Len(eval_logs)
    /\ w_pc' = "done"
    /\ UNCHANGED <<entry, eval_refs, callback, eval_logs, logs_eval, k,
                   reports_patch_success, reports_patch_failure, summary>>
    /\ UNCHANGED <<classVars, rateVars, reportVars, inferVars>>

\* get_model_eval_summary after get_eval_reports_for_dir has returned.
GetModelEvalSummary ==
    /\ w_pc = "done"
    /\ entry = "summary"
    /\ summary' = Summary(callback, reports_patch_success, reports_patch_failure)
    /\ w_pc' = "summarized"
    /\ UNCHANGED <<entry, eval_refs, callback, eval_logs, logs_eval, k,
                   reports_patch_success, reports_patch_failure>>
    /\ UNCHANGED <<classVars, rateVars, reportVars, inferVars>>

Next ==
    \/ GetEvalReportsForDir
    \/ ProcessLog
    \/ ReturnReports
    \/ GetModelEvalSummary

Spec == Init /\ [][Next]_vars

(***************************************************************************)
(* SpecRates: case_resolution_rates on every histogram of verdict counts.  *)
(***************************************************************************)
Histograms == UNION {[D -> 1..MaxCount] : D \in SUBSET Verdicts \ {{}}}

InitRates ==
    /\ h_pc = "input"
    /\ resolutions \in Histograms
    /\ rates = <<>>
    /\ ClassIdle
    /\ WalkIdle
    /\ ReportIdle
    /\ InferIdle

ComputeRates ==
    /\ h_pc = "input"
    /\ rates' = CaseResolutionRates(resolutions, Total(resolutions))
    /\ h_pc' = "rated"
    /\ UNCHANGED <<resolutions, classVars, walkVars, reportVars, inferVars>>

NextRates == ComputeRates

SpecRates == InitRates /\ [][NextRates]_vars

(***************************************************************************)
(* get_model_report: one iteration of the loop over the predictions.       *)
(* exists is os.path.exists(log_path) and res is get_logs_eval(log_path),  *)
(* asked_exists and asked_status tell whether the iteration asked for them.*)
(***************************************************************************)
ReportIds == {"r1-1", "r2-1", "r2-2"}
ModelPatches == {None, "diff"}
Predictions == [instance_id : ReportIds, model_patch : ModelPatches]
PredictionLists == UNION {[1..n -> Predictions] : n \in 0..MaxPreds}

EmptyEntry ==
    [none |-> <<>>, generated |-> <<>>, with_logs |-> <<>>,
     applied |-> <<>>, resolved |-> <<>>]

WithRepo(rm, repo) == IF repo \in DOMAIN rm THEN rm ELSE Put(rm, repo, EmptyEntry)

Outcome(rm, askedExists, askedStatus, raised) ==
    [report_map |-> rm, asked_exists |-> askedExists,
     asked_status |-> askedStatus, raised |-> raised]

\* Lines 291-308 without the append to "with_logs".
ClassifyPredictionNoLogs(rm, p, exists, res) ==
    LET id == p.instance_id
        repo == RepoOf(id)
        generated == [rm EXCEPT ![repo].generated = Append(@, id)]
        applied == [generated EXCEPT ![repo].applied = Append(@, id)]
        resolved == [applied EXCEPT ![repo].resolved = Append(@, id)]
    IN  IF ~exists THEN Outcome(generated, TRUE, FALSE, None)
        ELSE IF ~res.found THEN Outcome(generated, TRUE, TRUE, None)
        ELSE IF id \notin DOMAIN gold_refs
             THEN Outcome(applied, TRUE, TRUE, "KeyError")
        ELSE IF get_resolution_status(get_eval_report(res.sm, gold_refs[id]))
                    = RESOLVED_FULL
             THEN Outcome(resolved, TRUE, TRUE, None)
             ELSE Outcome(applied, TRUE, TRUE, None)

\* Lines 291-308: the prediction has a patch.
ClassifyPrediction(rm, p, exists, res) ==
    LET id == p.instance_id
        repo == RepoOf(id)
        generated == [rm EXCEPT ![repo].generated = Append(@, id)]
        with_logs == [generated EXCEPT ![repo].with_logs = Append(@, id)]
        applied == [with_logs EXCEPT ![repo].applied = Append(@, id)]
        resolved == [applied EXCEPT ![repo].resolved = Append(@, id)]
    IN  IF ~exists THEN Outcome(generated, TRUE, FALSE, None)
        ELSE IF ~res.found THEN Outcome(with_logs, TRUE, TRUE, None)
        ELSE IF id \notin DOMAIN gold_refs
             THEN Outcome(applied, TRUE, TRUE, "KeyError")
        ELSE IF get_resolution_status(get_eval_report(res.sm, gold_refs[id]))
                    = RESOLVED_FULL
             THEN Outcome(resolved, TRUE, TRUE, None)
             ELSE Outcome(applied, TRUE, TRUE, None)

\* The iteration without the `continue` after the "none" list.
PredictionBodyFallThrough(rm, p, exists, res) ==
    LET repo == RepoOf(p.instance_id)
        rm0 == WithRepo(rm, repo)
    IN  IF p.model_patch = None
        THEN ClassifyPrediction(
                [rm0 EXCEPT ![repo].none = Append(@, p.instance_id)], p, exists, res)
        ELSE ClassifyPrediction(rm0, p, exists, res)

\* Lines 277-308.
PredictionBody(rm, p, exists, res) ==
    LET repo == RepoOf(p.instance_id)
        rm0 == WithRepo(rm, repo)
    IN  IF p.model_patch = None
        THEN Outcome([rm0 EXCEPT ![repo].none = Append(@, p.instance_id)],
                     FALSE, FALSE, None)
        ELSE ClassifyPrediction(rm0, p, exists, res)

(***************************************************************************)
(* SpecReport: get_model_report on every list of predictions.  The log     *)
(* directory does not change during a run: log_exists and status_maps keep *)
(* what os.path.exists and get_logs_eval answered for an instance's log.   *)
(***************************************************************************)
InitReport ==
    /\ r_pc = "loop"
    /\ predictions \in PredictionLists
    /\ gold_refs \in GoldStores
    /\ pred_i = 1
    /\ report_map = <<>>
    /\ log_exists = <<>>
    /\ status_maps = <<>>
    /\ ClassIdle
    /\ WalkIdle
    /\ RateIdle
    /\ InferIdle

ProcessPrediction ==
    /\ r_pc = "loop"
    /\ pred_i <= Len(predictions)
    /\ LET p == predictions[pred_i]
           id == p.instance_id
       IN  \E exists \in (IF id \in DOMAIN log_exists
                          THEN {log_exists[id]} ELSE BOOLEAN),
              res \in (IF id \in DOMAIN status_maps
                       THEN {status_maps[id]} ELSE LogsEvalResults) :
              LET o == PredictionBody(report_map, p, exists, res) IN
              /\ report_map' = o.report_map
              /\ log_exists' = IF o.asked_exists
                               THEN Put(log_exists, id, exists) ELSE log_exists
              /\ status_maps' = IF o.asked_status
                                THEN Put(status_maps, id, res) ELSE status_maps
              /\ r_pc' = IF o.raised # None THEN o.raised ELSE "loop"
    /\ pred_i' = pred_i + 1
    /\ UNCHANGED <<predictions, gold_refs>>
    /\ UNCHANGED <<classVars, walkVars, rateVars, inferVars>>

\* `return report_map`
ReturnReportMap ==
    /\ r_pc = "loop"
    /\ pred_i > Len(predictions)
    /\ r_pc' = "done"
    /\ UNCHANGED <<predictions, gold_refs, pred_i, report_map, log_exists, status_maps>>
    /\ UNCHANGED <<classVars, walkVars, rateVars, inferVars>>

NextReport == ProcessPrediction \/ ReturnReportMap

SpecReport == InitReport /\ [][NextReport]_vars

(***************************************************************************)
(* run_model.py: main, anthropic_inference and openai_inference.           *)
(***************************************************************************)
StopAfterAttempt == 6

DataIds == {"r1-1", "r1-2", "r2-1"}
\* The test splits, concatenated and sorted by input length.
Datasets == UNION {[1..n -> DataIds] : n \in 0..MaxData}
ModelNames == {"claude-2", "llama-7b", "gpt-4-0613", "gpt-4"}
\* model_name_or_path.startswith("gpt")
IsGpt(name) == name \in {"gpt-4-0613", "gpt-4"}
\* The models MODEL_LIMITS has a token limit for.
MODEL_LIMITS == {"gpt-3.5-turbo-16k-0613", "gpt-4-32k-0613", "gpt-4-0613"}
\* --max_cost: not given, or a budget (a response costs one unit).
MaxCosts == {{}, {2}}
\* The instances whose input_ids exceed the model's limit.
TooLong == {{}, {"r1-2"}}
\* --shard_id / --num_shards, both given or not used.
NoShard == [used |-> FALSE, num_shards |-> 0, shard_id |-> 0]
Shards == {NoShard} \cup {[used |-> TRUE, num_shards |-> 2, shard_id |-> i] : i \in 0..1}

Min(a, b) == IF a < b THEN a ELSE b

\* Dataset.shard(num_shards, shard_id, contiguous=True)
Shard(ds, sh) ==
    IF ~sh.used THEN ds
    ELSE LET div == Len(ds) \div sh.num_shards
             mod == Len(ds) % sh.num_shards
             start == div * sh.shard_id + Min(sh.shard_id, mod)
             end == start + div + (IF sh.shard_id < mod THEN 1 ELSE 0)
         IN  SubSeq(ds, start + 1, end)

\* What anthropic.completions.create does: a completion, or an exception.
Completions == {"diff", "prose"}
ProviderOutcomes ==
    {[ok |-> TRUE, completion |-> c] : c \in Completions}
        \cup {[ok |-> FALSE, completion |-> None]}

\* make_datasets.utils.extract_diff: the patch in the completion, if any.
extract_diff(completion) == IF completion = "diff" THEN "diff" ELSE None

\* The body of call_anthropic: every exception is caught and None returned.
call_anthropic(outcome) ==
    IF outcome.ok
    THEN [raised |-> FALSE, value |-> outcome.completion]
    ELSE [raised |-> FALSE, value |-> None]

\* @retry(stop=stop_after_attempt(6)): what tenacity does with an attempt.
Retry(attempt, result) ==
    IF ~result.raised THEN "return"
    ELSE IF attempt >= StopAfterAttempt THEN "RetryError" ELSE "retry"

\* What openai.ChatCompletion.create does: a response, an InvalidRequestError
\* of code context_length_exceeded, or another exception.
ChatOutcomes ==
    {[kind |-> "response", completion |-> c] : c \in Completions}
        \cup {[kind |-> "context_length_exceeded", completion |-> None],
              [kind |-> "error", completion |-> None]}

\* The body of call_chat: None for context_length_exceeded, any other
\* exception leaves the function.
call_chat(outcome) ==
    IF outcome.kind = "response"
    THEN [raised |-> FALSE, value |-> outcome.completion]
    ELSE IF outcome.kind = "context_length_exceeded"
    THEN [raised |-> FALSE, value |-> None]
    ELSE [raised |-> TRUE, value |-> None]

StopAfterAttemptChat == 3

\* @retry(stop=stop_after_attempt(3)) of call_chat.
RetryChat(attempt, result) ==
    IF ~result.raised THEN "return"
    ELSE IF attempt >= StopAfterAttemptChat THEN "RetryError" ELSE "retry"

\* `max_cost is not None and total_cost >= max_cost`
ReachedMaxCost(cost) == \E m \in max_cost : cost >= m

\* The instance ids main reads from an output file that exists.
ExistingIdsUnread(file) == {}

ExistingIds(file) == {file[x].instance_id : x \in DOMAIN file}

InitInfer ==
    /\ i_pc = "start"
    /\ model_name_or_path \in ModelNames
    /\ shard \in Shards
    /\ dataset \in Datasets
    /\ output_file = <<>>
    /\ existing_ids = {}
    /\ test_dataset = <<>>
    /\ datum_i = 0
    /\ attempt_number = 0
    /\ sent = <<>>
    /\ runs = 0
    /\ too_long \in TooLong
    /\ max_cost \in MaxCosts
    /\ total_cost = 0
    /\ ClassIdle
    /\ WalkIdle
    /\ RateIdle
    /\ ReportIdle

\* main, up to the call of the inference function; a run starts on a fresh
\* output file or on the file an earlier run left.
Main ==
    /\ i_pc \in {"start", "done", "AttributeError", "TypeError", "RetryError",
                 "interrupted"}
    /\ runs < MaxRuns
    /\ runs' = runs + 1
    /\ LET ids == ExistingIds(output_file)
           filtered == IF ids # {}
                       THEN SelectSeq(dataset, LAMBDA id : id \notin ids)
                       ELSE dataset
           sharded == Shard(filtered, shard)
       IN  /\ existing_ids' = ids
           /\ IF model_name_or_path = "claude-2"
              THEN test_dataset' = sharded /\ i_pc' = "loop"
              ELSE IF IsGpt(model_name_or_path)
              THEN \* openai_inference, up to its loop: the filter on MODEL_LIMITS
                   IF sharded # <<>> /\ model_name_or_path \notin MODEL_LIMITS
                   THEN test_dataset' = sharded /\ i_pc' = "KeyError"
                   ELSE /\ test_dataset' =
                              SelectSeq(sharded, LAMBDA id : id \notin too_long)
                        /\ i_pc' = "chat_loop"
              ELSE test_dataset' = sharded /\ i_pc' = "ValueError"
    /\ datum_i' = 1
    /\ attempt_number' = 0
    /\ sent' = <<>>
    /\ total_cost' = 0
    /\ UNCHANGED <<model_name_or_path, shard, dataset, output_file, too_long, max_cost>>
    /\ UNCHANGED <<classVars, walkVars, rateVars, reportVars>>

\* anthropic_inference: the head of one iteration over test_dataset.
AnthropicDatum ==
    /\ i_pc = "loop"
    /\ datum_i <= Len(test_dataset)
    /\ IF test_dataset[datum_i] \in existing_ids
       THEN datum_i' = datum_i + 1 /\ UNCHANGED <<i_pc, attempt_number>>
       ELSE i_pc' = "call" /\ attempt_number' = 1 /\ UNCHANGED datum_i
    /\ UNCHANGED <<model_name_or_path, shard, dataset, output_file, existing_ids,
                   test_dataset, sent, runs, too_long, max_cost, total_cost>>
    /\ UNCHANGED <<classVars, walkVars, rateVars, reportVars>>

\* One attempt of call_anthropic under tenacity, and what anthropic_inference
\* does with the value it returns.
CallAnthropic ==
    /\ i_pc = "call"
    /\ \E outcome \in ProviderOutcomes :
          LET instance_id == test_dataset[datum_i]
              result == call_anthropic(outcome)
              next == Retry(attempt_number, result)
          IN  /\ sent' = Append(sent, instance_id)
              /\ IF next = "retry"
                 THEN /\ attempt_number' = attempt_number + 1
                      /\ UNCHANGED <<i_pc, datum_i, output_file>>
                 ELSE IF next = "RetryError"
                 THEN /\ i_pc' = "RetryError"
                      /\ UNCHANGED <<attempt_number, datum_i, output_file>>
                 ELSE IF result.value = None
                 THEN /\ i_pc' = "AttributeError"
                      /\ UNCHANGED <<attempt_number, datum_i, output_file>>
                 ELSE /\ output_file' = Append(output_file,
                            [instance_id |-> instance_id,
                             full_output |-> result.value,
                             model_patch |-> extract_diff(result.value)])
                      /\ datum_i' = datum_i + 1
                      /\ i_pc' = "loop"
                      /\ UNCHANGED attempt_number
    /\ UNCHANGED <<model_name_or_path, shard, dataset, existing_ids, test_dataset, runs,
                   too_long, max_cost, total_cost>>
    /\ UNCHANGED <<classVars, walkVars, rateVars, reportVars>>

\* openai_inference: the head of one iteration over test_dataset, and the
\* whole iteration for an instance over the model's limit.
OpenaiDatum ==
    /\ i_pc = "chat_loop"
    /\ datum_i <= Len(test_dataset)
    /\ LET instance_id == test_dataset[datum_i] IN
       IF instance_id \in existing_ids
       THEN /\ datum_i' = datum_i + 1
            /\ UNCHANGED <<i_pc, attempt_number, output_file>>
       ELSE IF instance_id \in too_long
       THEN /\ output_file' = Append(output_file,
                  [instance_id |-> instance_id,
                   full_output |-> None,
                   model_patch |-> None])
            /\ IF ReachedMaxCost(total_cost)
               THEN i_pc' = "done" /\ UNCHANGED datum_i
               ELSE datum_i' = datum_i + 1 /\ UNCHANGED i_pc
            /\ UNCHANGED attempt_number
       ELSE /\ i_pc' = "chat"
            /\ attempt_number' = 1
            /\ UNCHANGED <<datum_i, output_file>>
    /\ UNCHANGED <<model_name_or_path, shard, dataset, existing_ids, test_dataset,
                   sent, runs, too_long, max_cost, total_cost>>
    /\ UNCHANGED <<classVars, walkVars, rateVars, reportVars>>

\* One attempt of call_chat under tenacity, and what openai_inference does
\* with the value it returns.
CallChat ==
    /\ i_pc = "chat"
    /\ \E outcome \in ChatOutcomes :
          LET instance_id == test_dataset[datum_i]
              result == call_chat(outcome)
              next == RetryChat(attempt_number, result)
          IN  /\ sent' = Append(sent, instance_id)
              /\ IF next = "retry"
                 THEN /\ attempt_number' = attempt_number + 1
                      /\ UNCHANGED <<i_pc, datum_i, output_file, total_cost>>
                 ELSE IF next = "RetryError"
                 THEN /\ i_pc' = "RetryError"
                      /\ UNCHANGED <<attempt_number, datum_i, output_file, total_cost>>
                 ELSE IF result.value = None
                 THEN \* `response, cost = None`
                      /\ i_pc' = "TypeError"
                      /\ UNCHANGED <<attempt_number, datum_i, output_file, total_cost>>
                 ELSE /\ total_cost' = total_cost + 1
                      /\ output_file' = Append(output_file,
                            [instance_id |-> instance_id,
                             full_output |-> result.value,
                             model_patch |-> extract_diff(result.value)])
                      /\ IF ReachedMaxCost(total_cost + 1)
                         THEN i_pc' = "done" /\ UNCHANGED datum_i
                         ELSE datum_i' = datum_i + 1 /\ i_pc' = "chat_loop"
                      /\ UNCHANGED attempt_number
    /\ UNCHANGED <<model_name_or_path, shard, dataset, existing_ids, test_dataset, runs,
                   too_long, max_cost>>
    /\ UNCHANGED <<classVars, walkVars, rateVars, reportVars>>

\* The loop over test_dataset is exhausted: main logs "Done!".
FinishInference ==
    /\ i_pc \in {"loop", "chat_loop"}
    /\ datum_i > Len(test_dataset)
    /\ i_pc' = "done"
    /\ UNCHANGED <<model_name_or_path, shard, dataset, output_file, existing_ids,
                   test_dataset, datum_i, attempt_number, sent, runs,
                   too_long, max_cost, total_cost>>
    /\ UNCHANGED <<classVars, walkVars, rateVars, reportVars>>

\* The run is killed between two writes to the output file.
Interrupt ==
    /\ i_pc \in {"loop", "call", "chat_loop", "chat"}
    /\ i_pc' = "interrupted"
    /\ UNCHANGED <<model_name_or_path, shard, dataset, output_file, existing_ids,
                   test_dataset, datum_i, attempt_number, sent, runs,
                   too_long, max_cost, total_cost>>
    /\ UNCHANGED <<classVars, walkVars, rateVars, reportVars>>

NextInfer ==
    \/ Main
    \/ AnthropicDatum
    \/ CallAnthropic
    \/ OpenaiDatum
    \/ CallChat
    \/ FinishInference
    \/ Interrupt

SpecInfer == InitInfer /\ [][NextInfer]_vars

(***************************************************************************)
(* SpecClassify: get_eval_report on every status map and gold reference.   *)
(***************************************************************************)
InitClassify ==
    /\ c_pc = "input"
    /\ eval_sm \in StatusMaps
    /\ gold_results \in GoldReferences
    /\ report = NoReport
    /\ WalkIdle
    /\ RateIdle
    /\ ReportIdle
    /\ InferIdle

GetEvalReport ==
    /\ c_pc = "input"
    /\ report' = get_eval_report(eval_sm, gold_results)
    /\ c_pc' = "classified"
    /\ UNCHANGED <<eval_sm, gold_results, walkVars, rateVars, reportVars, inferVars>>

NextClassify == GetEvalReport

SpecClassify == InitClassify /\ [][NextClassify]_vars

(***************************************************************************)
(* Properties of get_eval_report (SpecClassify).                           *)
(***************************************************************************)
Passed(t, sm) == t \in DOMAIN sm /\ sm[t] = "PASSED"
Failed(t, sm) == t \in DOMAIN sm /\ sm[t] # "PASSED"

Returned == w_pc \in {"done", "summarized"}
Processed == IF w_pc \in {"loop", "done", "summarized"}
             THEN SubSeq(eval_logs, 1, k - 1) ELSE <<>>
Buckets == [success |-> reports_patch_success, failure |-> reports_patch_failure]
GoldOfKey(key) == eval_refs[key.instance_id]

WellFormedReport(r, gold) ==
    \A c \in Categories :
        /\ Range(r[c].success) \cap Range(r[c].failure) = {}
        /\ Range(r[c].success) \cup Range(r[c].failure) \subseteq Range(gold[c])

\* C2: in every report of either result map, no test case id is in both the
\* success and the failure list of a gold category, and every id in either list
\* belongs to that category's gold set.
C2_ListsDisjointWithinGold ==
    /\ \A key \in DOMAIN reports_patch_success :
          WellFormedReport(reports_patch_success[key], GoldOfKey(key))
    /\ \A key \in DOMAIN reports_patch_failure :
          WellFormedReport(reports_patch_failure[key], GoldOfKey(key))

\* A classified report with both lists of a category filled, beside a
\* synthesized one.
C2_Witness ==
    /\ \E key \in DOMAIN reports_patch_success : \E c \in Categories :
          /\ reports_patch_success[key][c].success # <<>>
          /\ reports_patch_success[key][c].failure # <<>>
    /\ \E key \in DOMAIN reports_patch_failure : \E c \in Categories :
          reports_patch_failure[key][c].failure # <<>>

AllFailure(gold) ==
    [c \in Categories |-> [success |-> <<>>, failure |-> gold[c]]]

HasGold(lp) == lp.instance_id \in DOMAIN eval_refs
Rejected(lp) == callback # None /\ RepoOf(lp.instance_id) # callback

\* C3: the iteration over a log that has a gold reference (and passes the
\* filter) writes, when found=false, only the failure map, with every gold
\* category's success list empty and failure list the full gold set; when
\* found=true, only the success map, with get_eval_report's report.
C3_RoutedByFound ==
    [][ (w_pc = "loop" /\ k <= Len(eval_logs) /\ k' = k + 1
            /\ HasGold(eval_logs[k]) /\ ~Rejected(eval_logs[k])) =>
        LET lp == eval_logs[k]
            key == [instance_id |-> lp.instance_id, model |-> lp.model]
            gold == eval_refs[lp.instance_id]
            res == logs_eval'[lp]
        IN  IF ~res.found
            THEN /\ reports_patch_failure' =
                        Put(reports_patch_failure, key, AllFailure(gold))
                 /\ reports_patch_success' = reports_patch_success
            ELSE /\ reports_patch_success' =
                        Put(reports_patch_success, key, get_eval_report(res.sm, gold))
                 /\ reports_patch_failure' = reports_patch_failure ]_vars

\* A failed-to-apply log in the failure map only, with its full gold set as
\* failures, and an applied log in the success map only.
C3_Witness ==
    /\ \E i \in DOMAIN Processed : LET lp == Processed[i] IN
          /\ HasGold(lp) /\ ~Rejected(lp) /\ ~logs_eval[lp].found
          /\ get_file_name_from_lp(lp) \in DOMAIN reports_patch_failure
          /\ get_file_name_from_lp(lp) \notin DOMAIN reports_patch_success
          /\ reports_patch_failure[get_file_name_from_lp(lp)][FAIL_TO_PASS]
                = [success |-> <<>>, failure |-> eval_refs[lp.instance_id][FAIL_TO_PASS]]
          /\ Len(eval_refs[lp.instance_id][FAIL_TO_PASS]) = 2
    /\ \E i \in DOMAIN Processed : LET lp == Processed[i] IN
          /\ HasGold(lp) /\ ~Rejected(lp) /\ logs_eval[lp].found
          /\ get_file_name_from_lp(lp) \in DOMAIN reports_patch_success
          /\ get_file_name_from_lp(lp) \notin DOMAIN reports_patch_failure

\* C4: a log without a gold reference, or rejected by the callback, leaves no
\* entry in either map, and the maps are those of the list without such logs.
C4_SkippedAsIfAbsent ==
    w_pc \in {"loop", "done", "summarized"} =>
        /\ \A i \in DOMAIN Processed :
              (~HasGold(Processed[i]) \/ Rejected(Processed[i])) =>
                 get_file_name_from_lp(Processed[i]) \notin
                    DOMAIN reports_patch_success \cup DOMAIN reports_patch_failure
        /\ Buckets = Walk(<<>>, <<>>,
                SelectSeq(Processed, LAMBDA lp : HasGold(lp) /\ ~Rejected(lp)))

\* A finished run that skipped one log for each reason, before and after logs
\* it kept.
C4_Witness ==
    /\ Returned
    /\ Len(eval_logs) = 3
    /\ HasGold(eval_logs[1]) /\ Rejected(eval_logs[1])
    /\ HasGold(eval_logs[2]) /\ ~Rejected(eval_logs[2])
    /\ ~HasGold(eval_logs[3]) /\ ~Rejected(eval_logs[3])
    /\ DOMAIN reports_patch_success \cup DOMAIN reports_patch_failure
          = {get_file_name_from_lp(eval_logs[2])}

Permuted(s) ==
    {[i \in DOMAIN s |-> s[f[i]]] : f \in Permutations(DOMAIN s)}

\* C6 as stated: the returned maps are the same for every permutation of the
\* list of log paths.
C6_AnyListOrderIndependent ==
    w_pc = "done" =>
        \A logs \in Permuted(eval_logs) : Walk(<<>>, <<>>, logs) = Buckets

UniqueFileNames(logs) ==
    \A i, j \in DOMAIN logs :
        get_file_name_from_lp(logs[i]) = get_file_name_from_lp(logs[j])
            => logs[i] = logs[j]

\* C6 amended: the returned maps are the same for every permutation of a list
\* of log paths in which no two different paths have the same file name.
C6_OrderIndependent ==
    (w_pc = "done" /\ UniqueFileNames(eval_logs)) =>
        \A logs \in Permuted(eval_logs) : Walk(<<>>, <<>>, logs) = Buckets

\* Three logs of different file names, routed to both maps.
C6_Witness ==
    /\ w_pc = "done"
    /\ Len(eval_logs) = 3
    /\ UniqueFileNames(eval_logs)
    /\ IsInjective(eval_logs)
    /\ Cardinality(DOMAIN reports_patch_success) = 1
    /\ Cardinality(DOMAIN reports_patch_failure) = 2

StatusCount(m, v) ==
    Cardinality({key \in DOMAIN m : get_resolution_status(m[key]) = v})

CountOf(counts, v) == IF v \in DOMAIN counts THEN counts[v] ELSE 0

\* C7: the summary has exactly two views, the first over the success map, the
\* second over the success map and the failure map; each view's verdict counts
\* are those of its reports and sum to the number of its reports.
C7_TwoViews ==
    w_pc = "summarized" =>
        LET first == summary.views[PatchApplySuccess]
            second == summary.views[PatchApplyBoth]
            nS == Cardinality(DOMAIN reports_patch_success)
            nF == Cardinality(DOMAIN reports_patch_failure)
        IN  /\ DOMAIN summary.views = {PatchApplySuccess, PatchApplyBoth}
            /\ first.cases = <<reports_patch_success>>
            /\ second.cases = <<reports_patch_success, reports_patch_failure>>
            /\ \A v \in Verdicts :
                  /\ CountOf(first.case_resolution_counts, v)
                        = StatusCount(reports_patch_success, v)
                  /\ CountOf(second.case_resolution_counts, v)
                        = StatusCount(reports_patch_success, v)
                          + StatusCount(reports_patch_failure, v)
            /\ Total(first.case_resolution_counts) = nS
            /\ Total(second.case_resolution_counts) = nS + nF
            /\ Total(second.case_resolution_counts)
                  = Total(first.case_resolution_counts) + nF

\* A summary over two applied instances and one that failed to apply.
C7_Witness ==
    /\ w_pc = "summarized"
    /\ Cardinality(DOMAIN reports_patch_success) = 2
    /\ Cardinality(DOMAIN reports_patch_failure) = 1
    /\ Total(summary.views[PatchApplyBoth].case_resolution_counts) = 3
    /\ Total(summary.views[PatchApplySuccess].case_resolution_counts) = 2

(***************************************************************************)
(* Property of case_resolution_rates (SpecRates).                          *)
(***************************************************************************)
Abs(x) == IF x < 0 THEN -x ELSE x

\* C8: for a non-empty set of reports the verdict percentage shares sum to 100
\* within 0.005 per histogram bucket (rates are in hundredths of a percent, so
\* twice the distance from 10000 is at most the number of buckets).
C8_SharesSumTo100 ==
    h_pc = "rated" =>
        2 * Abs(Total(rates) - 10000) <= Cardinality(DOMAIN rates)

\* Three buckets of one report each: 33.33 + 33.33 + 33.33 = 99.99.
C8_Witness ==
    /\ h_pc = "rated"
    /\ DOMAIN rates = Verdicts
    /\ \A v \in Verdicts : resolutions[v] = 1 /\ rates[v] = 3333
    /\ Total(rates) = 9999

(***************************************************************************)
(* Properties of get_model_report (SpecReport).                            *)
(***************************************************************************)
\* C5 as stated: a prediction whose instance id has no gold reference never
\* aborts the run: the loop is never left by an exception, and a run that has
\* left the loop has classified every prediction.
C5_MissingGoldNotFatal ==
    /\ r_pc \in {"loop", "done"}
    /\ r_pc # "loop" => pred_i = Len(predictions) + 1

FieldOf(rm, repo, f) == IF repo \in DOMAIN rm THEN rm[repo][f] ELSE <<>>

\* C9: the iteration over a prediction whose model_patch is null appends its
\* instance id to its repo's "none" list and to no other list, asks for no
\* status map (and no log), and raises nothing.
C9_NullPatchOnlyNone ==
    [][ (r_pc = "loop" /\ pred_i <= Len(predictions) /\ pred_i' = pred_i + 1
            /\ predictions[pred_i].model_patch = None) =>
        LET id == predictions[pred_i].instance_id
            repo == RepoOf(id)
        IN  /\ r_pc' = "loop"
            /\ status_maps' = status_maps
            /\ log_exists' = log_exists
            /\ DOMAIN report_map' = DOMAIN report_map \cup {repo}
            /\ report_map'[repo].none = Append(FieldOf(report_map, repo, "none"), id)
            /\ \A f \in {"generated", "with_logs", "applied", "resolved"} :
                  report_map'[repo][f] = FieldOf(report_map, repo, f)
            /\ \A other \in DOMAIN report_map \ {repo} :
                  report_map'[other] = report_map[other] ]_vars

\* A finished run in which "r1-1" had no patch and "r2-1" was resolved: "r1-1"
\* is in its repo's "none" list alone and no status map was asked for it.
C9_Witness ==
    /\ r_pc = "done"
    /\ \E i \in DOMAIN predictions :
          predictions[i] = [instance_id |-> "r1-1", model_patch |-> None]
    /\ report_map["r1"] = [EmptyEntry EXCEPT !.none = <<"r1-1">>]
    /\ "r1-1" \notin DOMAIN status_maps
    /\ "r2" \in DOMAIN report_map
    /\ report_map["r2"].resolved = <<"r2-1">>

\* The predictions the loop of get_model_report has been through.
ProcessedPredictions ==
    IF r_pc = "idle" THEN <<>> ELSE SubSeq(predictions, 1, pred_i - 1)

ProcessedIds(repo) ==
    {ProcessedPredictions[i].instance_id : i \in
        {x \in DOMAIN ProcessedPredictions :
            RepoOf(ProcessedPredictions[x].instance_id) = repo}}

Funnel(e) ==
    /\ Range(e.resolved) \subseteq Range(e.applied)
    /\ Range(e.applied) \subseteq Range(e.with_logs)
    /\ Range(e.with_logs) \subseteq Range(e.generated)

\* C11 as stated: after any sequence of predictions every repo entry has
\* resolved within applied within with_logs within generated, and none and
\* generated are disjoint and together hold exactly the instance ids of the
\* repo's processed predictions.
C11_FunnelAnyPredictions ==
    \A repo \in DOMAIN report_map :
        /\ Funnel(report_map[repo])
        /\ Range(report_map[repo].none) \cap Range(report_map[repo].generated) = {}
        /\ Range(report_map[repo].none) \cup Range(report_map[repo].generated)
              = ProcessedIds(repo)

\* No instance id has a prediction without a patch and one with a patch.
OnePatchStatePerId(preds) ==
    \A a, b \in DOMAIN preds :
        preds[a].instance_id = preds[b].instance_id =>
            (preds[a].model_patch = None <=> preds[b].model_patch = None)

\* C11 amended: the same, for the sequences of predictions in which no instance
\* id occurs both with a null model_patch and with a patch (as when the
\* instance ids of the predictions are unique).
C11_Funnel ==
    OnePatchStatePerId(ProcessedPredictions) =>
        \A repo \in DOMAIN report_map :
            /\ Funnel(report_map[repo])
            /\ Range(report_map[repo].none) \cap Range(report_map[repo].generated) = {}
            /\ Range(report_map[repo].none) \cup Range(report_map[repo].generated)
                  = ProcessedIds(repo)

\* A finished run over three predictions of repo "r2": "r2-1" resolved, "r2-2"
\* without a patch, and "r2-1" once more, with its log read again.
C11_Witness ==
    /\ r_pc = "done"
    /\ Len(predictions) = 3
    /\ OnePatchStatePerId(predictions)
    /\ DOMAIN report_map = {"r2"}
    /\ report_map["r2"].none = <<"r2-2">>
    /\ report_map["r2"].generated = <<"r2-1", "r2-1">>
    /\ report_map["r2"].with_logs = <<"r2-1", "r2-1">>
    /\ report_map["r2"].resolved = <<"r2-1", "r2-1">>

(***************************************************************************)
(* Property of call_anthropic and anthropic_inference (SpecInfer).         *)
(***************************************************************************)
\* C10 as stated: a failing provider call is re-attempted, up to 6 attempts in
\* total, before the failure reaches anthropic_inference: a run fails on a
\* provider failure only with all 6 attempts used up.
C10_FailureRetried ==
    i_pc = "AttributeError" => attempt_number = StopAfterAttempt

(***************************************************************************)
(* Property of main with anthropic_inference and openai_inference          *)
(* (SpecInfer).                                                            *)
(***************************************************************************)
\* C12: across the runs writing to one output file, interrupted or failed
\* runs included, when the instance ids of the dataset are unique, an
\* instance id with a record in the file at the start of a run is not sent to
\* the provider in that run, and the file, which is only appended to, holds
\* at most one record per instance id.
C12_OneRecordPerId ==
    IsInjective(dataset) =>
        /\ Range(sent) \cap existing_ids = {}
        /\ \A a, b \in DOMAIN output_file :
              output_file[a].instance_id = output_file[b].instance_id => a = b

\* A second gpt run that has finished all three instances of the dataset
\* after a first run that stopped with one record written: that instance was
\* read from the file and the other two were sent and recorded.
C12_Witness ==
    /\ runs = 2
    /\ i_pc = "done"
    /\ IsGpt(model_name_or_path)
    /\ IsInjective(dataset)
    /\ Len(dataset) = 3
    /\ Cardinality(existing_ids) = 1
    /\ existing_ids \subseteq Range(dataset)
    /\ Cardinality(Range(sent)) = 2
    /\ Len(output_file) = 3

====
